---- MODULE Spec2Model ----
(***************************************************************************)
(* Orbit camera and player movement of tersia (src/src/main.rs): the two   *)
(* per-frame systems process_mouse_events and update_player, the event     *)
(* readers they keep, and the player / camera components they write.       *)
(*                                                                         *)
(* Numbers.  Every f32 of the program is a fixed-point integer with One    *)
(* standing for 1.0, so 0.5 is 500 and 30 degrees (0.5236 rad) is 524.     *)
(* Products and quotients are rounded to the nearest unit, as f32          *)
(* arithmetic rounds to the nearest representable value; sin, cos and sqrt *)
(* are computed to that precision.  Statements the specification makes     *)
(* "within floating tolerance" are checked with the tolerance Near.        *)
(* Division by zero (a NaN in f32) is left undefined: TLC stops with an    *)
(* error if a run ever normalizes a zero vector.                           *)
(*                                                                         *)
(* Rotations.  A rotation is held as the three columns (x_axis, y_axis,    *)
(* z_axis) of its 3x3 matrix; the quaternion the engine stores is the same *)
(* rotation.                                                               *)
(***************************************************************************)
EXTENDS Integers, Sequences, FiniteSets, TLC

\* ------------------------------------------------------------------ bounds

\* Frames a run goes through.
MaxFrames == 2
\* Events ever queued on one event stream.
MaxEvents == 2

\* ----------------------------------------------------------------- numbers

\* 1.0 in fixed point.
One == 1000
\* pi * 10^4.
PiE4 == 31416

Max(a, b) == IF a >= b THEN a ELSE b
Min(a, b) == IF a <= b THEN a ELSE b

\* a / b for integers a and b > 0, rounded to the nearest integer.
RDiv(a, b) == IF a >= 0 THEN (2 * a + b) \div (2 * b) ELSE -((2 * (-a) + b) \div (2 * b))

\* f32 product and quotient.
Mul(a, b) == RDiv(a * b, One)
Div(a, b) == IF b > 0 THEN RDiv(a * One, b) ELSE -RDiv(a * One, -b)

Pi == RDiv(PiE4, 10)
HalfPi == RDiv(PiE4, 20)
QuarterPi == RDiv(PiE4, 40)

\* f32::to_radians of a whole number of degrees.
ToRadians(deg) == RDiv(deg * PiE4, 1800)

\* sin and cos on [0, pi/4] by their Taylor polynomials (Horner form).
SinT(x) ==
    LET x2 == Mul(x, x)
        t3 == One - RDiv(x2, 42)
        t2 == One - RDiv(Mul(x2, t3), 20)
        t1 == One - RDiv(Mul(x2, t2), 6)
    IN  Mul(x, t1)

CosT(x) ==
    LET x2 == Mul(x, x)
        t3 == One - RDiv(x2, 30)
        t2 == One - RDiv(Mul(x2, t3), 12)
    IN  One - RDiv(Mul(x2, t2), 2)

\* sin on [0, pi/2] and on [0, pi].
SinQ(x) == IF x <= QuarterPi THEN SinT(x) ELSE CosT(HalfPi - x)
SinP(x) == IF x <= HalfPi THEN SinQ(x) ELSE SinQ(Pi - x)

\* f32::sin and f32::cos.
Sin(a) == LET r == a % (2 * Pi) IN IF r <= Pi THEN SinP(r) ELSE -SinP(r - Pi)
Cos(a) == Sin(a + HalfPi)

RECURSIVE SqrtIter(_, _, _)
SqrtIter(n, lo, hi) ==
    IF lo >= hi THEN lo
    ELSE LET mid == (lo + hi + 1) \div 2
         IN  IF mid * mid <= n THEN SqrtIter(n, mid, hi) ELSE SqrtIter(n, lo, mid - 1)

\* The square root of n >= 0, rounded to the nearest integer.
ISqrt(n) == LET r == SqrtIter(n, 0, 46340) IN IF n - r * r > r THEN r + 1 ELSE r

\* ----------------------------------------------------------------- vectors

Vec2Zero == <<0, 0>>
Vec3Zero == <<0, 0, 0>>
Vec3Up == <<0, One, 0>>

Vec3Add(a, b) == <<a[1] + b[1], a[2] + b[2], a[3] + b[3]>>
Vec3Sub(a, b) == <<a[1] - b[1], a[2] - b[2], a[3] - b[3]>>
Vec3Neg(a) == <<-a[1], -a[2], -a[3]>>
Vec3Scale(a, s) == <<Mul(a[1], s), Mul(a[2], s), Mul(a[3], s)>>
Vec3Length(a) == ISqrt(a[1] * a[1] + a[2] * a[2] + a[3] * a[3])
Vec3Normalize(a) == LET l == Vec3Length(a) IN <<Div(a[1], l), Div(a[2], l), Div(a[3], l)>>
Vec3Cross(a, b) ==
    << Mul(a[2], b[3]) - Mul(a[3], b[2]),
       Mul(a[3], b[1]) - Mul(a[1], b[3]),
       Mul(a[1], b[2]) - Mul(a[2], b[1]) >>

Vec2Scale(a, s) == <<Mul(a[1], s), Mul(a[2], s)>>
Vec2Length(a) == ISqrt(a[1] * a[1] + a[2] * a[2])
\* glam's Vec2::normalize(self) -> Vec2: the unit vector is the RETURN value;
\* the receiver is not changed.
Vec2Normalize(a) == LET l == Vec2Length(a) IN <<Div(a[1], l), Div(a[2], l)>>

\* Vec4::truncate: the first three components.
Truncate(v) == <<v[1], v[2], v[3]>>

\* --------------------------------------------------------------- rotations

RotationIdentity == << <<One, 0, 0>>, <<0, One, 0>>, <<0, 0, One>> >>

\* Quat::from_rotation_y(angle), as its matrix.
FromRotationY(angle) ==
    << <<Cos(angle), 0, -Sin(angle)>>, <<0, One, 0>>, <<Sin(angle), 0, Cos(angle)>> >>

\* Mat4::face_toward(eye, center, up), rotation part (what
\* to_scale_rotation_translation().1 keeps).
FaceToward(eye, center, up) ==
    LET forward == Vec3Normalize(Vec3Sub(eye, center))
        right == Vec3Normalize(Vec3Cross(up, forward))
        up2 == Vec3Cross(forward, right)
    IN  <<right, up2, forward>>

\* The Mat4 of an entity with unit scale: rotation columns and translation.
TransformValue(rot, trans) ==
    [ x_axis |-> <<rot[1][1], rot[1][2], rot[1][3], 0>>,
      y_axis |-> <<rot[2][1], rot[2][2], rot[2][3], 0>>,
      z_axis |-> <<rot[3][1], rot[3][2], rot[3][3], 0>>,
      w_axis |-> <<trans[1], trans[2], trans[3], One>> ]

\* ------------------------------------------------------------------- state

VARIABLES
    pc,                   \* the system the scheduler runs next
    frame,                \* frames begun so far
    time,                 \* Res<Time>: [delta_seconds]
    keyboard_input,       \* Res<Input<KeyCode>>: the keys held down
    mouse_motion_events,  \* Res<Events<MouseMotion>>: every event queued, in order
    mouse_wheel_events,   \* Res<Events<MouseWheel>>
    state,                \* ResMut<State>: the two event readers (read cursors)
    player,               \* the MMOPlayer component
    translation,          \* the player's Translation
    rotation,             \* the player's Rotation
    transform,            \* the player's Transform (the matrix the engine derives)
    cameras,              \* Translation and Rotation of the camera entities alive
    look,                 \* process_mouse_events' local `look` as it last left it
    zoom_delta,           \* process_mouse_events' local `zoom_delta`
    panicked,             \* a system has panicked
    before                \* the values at the start of the current frame

vars ==
    << pc, frame, time, keyboard_input, mouse_motion_events, mouse_wheel_events,
       state, player, translation, rotation, transform, cameras, look, zoom_delta,
       panicked, before >>

None == "None"
\* The entity setup spawns with Camera3dComponents.
CameraEntity == "camera"

W == "W"
A == "A"
S == "S"
D == "D"
KeyCodes == {W, A, S, D}

\* ---------------------------------------------------------------- MMOPlayer

DefaultPlayer ==
    [ yaw |-> 0,
      camera_distance |-> 20 * One,
      camera_pitch |-> ToRadians(30),
      camera_entity |-> None ]

\* setup: MMOPlayer { camera_entity, camera_distance: 20., ..Default::default() }
SetupPlayer(camera_entity) ==
    [DefaultPlayer EXCEPT !.camera_entity = camera_entity, !.camera_distance = 20 * One]

\* Camera3dComponents::default(): at the origin, not rotated.
SpawnCamera(cams, e) ==
    [ translation |-> (e :> Vec3Zero) @@ cams.translation,
      rotation |-> (e :> RotationIdentity) @@ cams.rotation ]

NoCameras == [translation |-> <<>>, rotation |-> <<>>]

\* ----------------------------------------------------- process_mouse_events

zoom_sense == 10 * One
look_sense == One

\* What EventReader::iter yields: the events queued after the reader's cursor.
Unread(events, reader) == SubSeq(events, reader + 1, Len(events))

\* Variant: the cursor is not kept (a reader rebuilt from the old value).
ReaderStuck(events, reader) == reader

\* EventReader::iter leaves the cursor at the stream's event count.
ReaderAdvance(events, reader) == Len(events)

\* Variant: the loop adds the deltas up (look += event.delta).
RECURSIVE LookLoopSum(_, _)
LookLoopSum(acc, events) ==
    IF events = <<>> THEN acc
    ELSE LookLoopSum(<<acc[1] + Head(events).delta[1], acc[2] + Head(events).delta[2]>>,
                     Tail(events))

\* for event in reader.iter(&mouse_motion_events) { look = event.delta; }
RECURSIVE LookLoop(_, _)
LookLoop(acc, events) ==
    IF events = <<>> THEN acc ELSE LookLoop(Head(events).delta, Tail(events))

\* for event in reader.iter(&mouse_wheel_events) { zoom_delta = event.y; }
RECURSIVE ZoomLoop(_, _)
ZoomLoop(acc, events) ==
    IF events = <<>> THEN acc ELSE ZoomLoop(Head(events).y, Tail(events))

\* Variant: the pitch is raised by the look delta instead of lowered.
IntegratePitchAdded(p, lk, zd, dt) ==
    [p EXCEPT
        !.yaw = @ + Mul(lk[1], dt),
        !.camera_pitch = @ + Mul(Mul(lk[2], dt), look_sense),
        !.camera_distance = @ - Mul(Mul(zd, dt), zoom_sense)]

\* The body of `for mut player in &mut query.iter()`.
Integrate(p, lk, zd, dt) ==
    [p EXCEPT
        !.yaw = @ + Mul(lk[1], dt),
        !.camera_pitch = @ - Mul(Mul(lk[2], dt), look_sense),
        !.camera_distance = @ - Mul(Mul(zd, dt), zoom_sense)]

ProcessMouseEvents ==
    /\ pc = "process_mouse_events"
    /\ LET lk == LookLoop(Vec2Zero, Unread(mouse_motion_events, state.mouse_motion_event_reader))
           zd == ZoomLoop(0, Unread(mouse_wheel_events, state.mouse_wheel_event_reader))
       IN  /\ look' = lk
           /\ zoom_delta' = zd
           /\ player' = Integrate(player, lk, zd, time.delta_seconds)
    /\ state' =
         [ mouse_motion_event_reader |->
               ReaderAdvance(mouse_motion_events, state.mouse_motion_event_reader),
           mouse_wheel_event_reader |->
               ReaderAdvance(mouse_wheel_events, state.mouse_wheel_event_reader) ]
    /\ pc' = "update_player"
    /\ UNCHANGED << frame, time, keyboard_input, mouse_motion_events, mouse_wheel_events,
                    translation, rotation, transform, cameras, panicked, before >>

\* ------------------------------------------------------------ update_player

move_speed == 10 * One

\* Variant: S and A add to the intent as W and D do.
MovementIntentNoCancel(keys) ==
    << (IF D \in keys THEN One ELSE 0) + (IF A \in keys THEN One ELSE 0),
       (IF W \in keys THEN One ELSE 0) + (IF S \in keys THEN One ELSE 0) >>

\* The four `if keyboard_input.pressed(..)` lines.
MovementIntent(keys) ==
    << (IF D \in keys THEN One ELSE 0) - (IF A \in keys THEN One ELSE 0),
       (IF W \in keys THEN One ELSE 0) - (IF S \in keys THEN One ELSE 0) >>

\* `if movement != Vec2::zero() { movement.normalize(); }`: the statement
\* evaluates Vec2::normalize and drops its value; `movement` keeps its length.
NormalizeStatement(movement) ==
    LET dropped == IF movement # Vec2Zero THEN Vec2Normalize(movement) ELSE movement
    IN  movement

\* `movement` as the loop over the players reads it.
Movement(keys, dt) ==
    Vec2Scale(NormalizeStatement(MovementIntent(keys)), Mul(dt, move_speed))

\* Variant: the pitch is only capped above (no .max(1 degree)).
ClampPitchNoFloor(p) == Min(p, ToRadians(179))
\* Variant: the two bounds of the distance swapped, .max(30.).min(5.).
ClampDistanceSwapped(d) == Min(Max(d, 30 * One), 5 * One)

ClampPitch(p) == Min(Max(p, ToRadians(1)), ToRadians(179))
ClampDistance(d) == Min(Max(d, 5 * One), 30 * One)

\* Variant: the step is taken along the axes of the heading this frame set.
DisplacementNewHeading(tf, movement) ==
    LET rot == FromRotationY(-player.yaw)
        fwd == Vec3Scale(rot[3], movement[2])
        right == Vec3Scale(Vec3Neg(rot[1]), movement[1])
    IN  Vec3Add(fwd, right)

\* Vec3::from(fwd + right), along the axes of the player's Transform.
Displacement(tf, movement) ==
    LET fwd == Vec3Scale(Truncate(tf.z_axis), movement[2])
        right == Vec3Scale(Vec3Neg(Truncate(tf.x_axis)), movement[1])
    IN  Vec3Add(fwd, right)

\* Variant: scaled by the distance before normalizing instead of after.
CamPosScaledFirst(p) ==
    Vec3Normalize(Vec3Scale(<<0, Cos(p.camera_pitch), -Sin(p.camera_pitch)>>,
                            p.camera_distance))

\* let cam_pos = Vec3::new(0., pitch.cos(), -pitch.sin()).normalize() * distance
CamPos(p) ==
    Vec3Scale(Vec3Normalize(<<0, Cos(p.camera_pitch), -Sin(p.camera_pitch)>>),
              p.camera_distance)

\* camera_query.get_mut::<T>(entity) is Ok exactly when the entity has a T.
GetMutOk(component, e) == e \in DOMAIN component

\* Variant: the reference and the lookups are unwrapped, which panics on a
\* None and on a failed lookup.
PlaceCameraUnwrap(p, cams) ==
    IF p.camera_entity = None \/ ~GetMutOk(cams.translation, p.camera_entity)
    THEN [cameras |-> cams, panicked |-> TRUE]
    ELSE LET e == p.camera_entity
             cam_pos == CamPos(p)
         IN  [ cameras |->
                 [ translation |-> [cams.translation EXCEPT ![e] = cam_pos],
                   rotation |->
                     [cams.rotation EXCEPT ![e] = FaceToward(cam_pos, Vec3Zero, Vec3Up)] ],
               panicked |-> FALSE ]

\* The `if let Some(camera_entity)` block: the cameras after it, and whether
\* it panicked.
PlaceCamera(p, cams) ==
    IF p.camera_entity = None
    THEN [cameras |-> cams, panicked |-> FALSE]
    ELSE LET e == p.camera_entity
             cam_pos == CamPos(p)
         IN  [ cameras |->
                 [ translation |->
                     IF GetMutOk(cams.translation, e)
                     THEN [cams.translation EXCEPT ![e] = cam_pos]
                     ELSE cams.translation,
                   rotation |->
                     IF GetMutOk(cams.rotation, e)
                     THEN [cams.rotation EXCEPT ![e] = FaceToward(cam_pos, Vec3Zero, Vec3Up)]
                     ELSE cams.rotation ],
               panicked |-> FALSE ]

UpdatePlayer ==
    /\ pc = "update_player"
    /\ LET movement == Movement(keyboard_input, time.delta_seconds)
           p == [player EXCEPT !.camera_pitch = ClampPitch(@),
                               !.camera_distance = ClampDistance(@)]
           rot == FromRotationY(-p.yaw)
           placed == PlaceCamera(p, cameras)
       IN  /\ player' = p
           /\ translation' = Vec3Add(translation, Displacement(transform, movement))
           /\ rotation' = rot
           /\ cameras' = placed.cameras
           /\ panicked' = (panicked \/ placed.panicked)
    /\ pc' = "post_update"
    /\ UNCHANGED << frame, time, keyboard_input, mouse_motion_events, mouse_wheel_events,
                    state, transform, look, zoom_delta, before >>

\* ------------------------------------------------------------------- engine

\* The engine's transform stage, after the update stage of every frame: the
\* Transform matrix is rebuilt from Translation and Rotation.
PostUpdate ==
    /\ pc = "post_update"
    /\ transform' = TransformValue(rotation, translation)
    /\ pc' = "input"
    /\ UNCHANGED << frame, time, keyboard_input, mouse_motion_events, mouse_wheel_events,
                    state, player, translation, rotation, cameras, look, zoom_delta,
                    panicked, before >>

\* Frame durations the clock supplies: half a second and a second.
DtValues == {One \div 2, One}
\* Pointer motions the device reports.
MotionDeltas == {<<One, One>>, <<-2 * One, -3 * One>>}
\* Wheel steps the device reports.
WheelSteps == {5 * One, -One}

\* The sequences of at most n elements of s.
Bursts(s, n) == UNION {[1..k -> s] : k \in 0..n}

Snapshot ==
    [ player |-> player, translation |-> translation, rotation |-> rotation,
      transform |-> transform, cameras |-> cameras, state |-> state,
      motion_count |-> Len(mouse_motion_events),
      wheel_count |-> Len(mouse_wheel_events) ]

\* The start of a frame: the clock ticks, the keyboard state is sampled and
\* the device queues this frame's events.
DeviceInput(keysets, motions, wheels) ==
    /\ pc = "input"
    /\ frame < MaxFrames
    /\ \E dt \in DtValues, keys \in keysets,
          ms \in Bursts(motions, MaxEvents - Len(mouse_motion_events)),
          ws \in Bursts(wheels, MaxEvents - Len(mouse_wheel_events)) :
            /\ time' = [delta_seconds |-> dt]
            /\ keyboard_input' = keys
            /\ mouse_motion_events' =
                 mouse_motion_events \o [i \in 1..Len(ms) |-> [delta |-> ms[i]]]
            /\ mouse_wheel_events' =
                 mouse_wheel_events \o [i \in 1..Len(ws) |-> [y |-> ws[i]]]
    /\ before' = Snapshot
    /\ frame' = frame + 1
    /\ pc' = "process_mouse_events"
    /\ UNCHANGED << state, player, translation, rotation, transform, cameras, look,
                    zoom_delta, panicked >>

\* ----------------------------------------------------------- specifications

InitWith(camera_entity, cams) ==
    /\ pc = "input"
    /\ frame = 0
    /\ time = [delta_seconds |-> 0]
    /\ keyboard_input = {}
    /\ mouse_motion_events = <<>>
    /\ mouse_wheel_events = <<>>
    /\ state = [mouse_motion_event_reader |-> 0, mouse_wheel_event_reader |-> 0]
    /\ player = SetupPlayer(camera_entity)
    /\ translation = Vec3Zero
    /\ rotation = RotationIdentity
    /\ transform = TransformValue(RotationIdentity, Vec3Zero)
    /\ cameras = cams
    /\ look = Vec2Zero
    /\ zoom_delta = 0
    /\ panicked = FALSE
    /\ before = [ player |-> SetupPlayer(camera_entity), translation |-> Vec3Zero,
                  rotation |-> RotationIdentity,
                  transform |-> TransformValue(RotationIdentity, Vec3Zero),
                  cameras |-> cams,
                  state |-> [mouse_motion_event_reader |-> 0, mouse_wheel_event_reader |-> 0],
                  motion_count |-> 0, wheel_count |-> 0 ]

\* The world setup leaves: the player wired to the camera it spawned.
Init == InitWith(CameraEntity, SpawnCamera(NoCameras, CameraEntity))

Systems == ProcessMouseEvents \/ UpdatePlayer \/ PostUpdate

\* Looking and zooming, walking forward or standing still.
Next == DeviceInput({{}, {W}}, MotionDeltas, WheelSteps) \/ Systems

Spec == Init /\ [][Next]_vars

\* Walking with every combination of the four keys while the pointer turns
\* the player.
NextMove == DeviceInput(SUBSET KeyCodes, {<<-2 * One, -3 * One>>}, {}) \/ Systems

SpecMove == Init /\ [][NextMove]_vars

\* The camera entity is destroyed between two frames.
DespawnCamera ==
    /\ pc = "input"
    /\ CameraEntity \in DOMAIN cameras.translation
    /\ cameras' = NoCameras
    /\ UNCHANGED << pc, frame, time, keyboard_input, mouse_motion_events,
                    mouse_wheel_events, state, player, translation, rotation, transform,
                    look, zoom_delta, panicked, before >>

\* The camera entity becomes available again, with the components it is
\* spawned with.
RespawnCamera ==
    /\ pc = "input"
    /\ CameraEntity \notin DOMAIN cameras.translation
    /\ cameras' = SpawnCamera(cameras, CameraEntity)
    /\ UNCHANGED << pc, frame, time, keyboard_input, mouse_motion_events,
                    mouse_wheel_events, state, player, translation, rotation, transform,
                    look, zoom_delta, panicked, before >>

\* A player as setup wires it, or one left with Default's camera_entity.
InitCamera ==
    \E camera_entity \in {None, CameraEntity} :
        InitWith(camera_entity, SpawnCamera(NoCameras, CameraEntity))

NextCamera ==
    \/ DeviceInput({{}, {W}}, {<<-2 * One, -3 * One>>}, {-One})
    \/ Systems
    \/ DespawnCamera
    \/ RespawnCamera

SpecCamera == InitCamera /\ [][NextCamera]_vars

\* ------------------------------------------------------------------ claims

\* update_player has just returned.
AfterUpdate == pc = "post_update"
\* process_mouse_events has just returned.
AfterProcess == pc = "update_player"

\* The events the device queued for the current frame.
FrameMotion == SubSeq(mouse_motion_events, before.motion_count + 1, Len(mouse_motion_events))
FrameWheel == SubSeq(mouse_wheel_events, before.wheel_count + 1, Len(mouse_wheel_events))

Abs(a) == IF a < 0 THEN -a ELSE a

\* Equal within floating tolerance: one percent and two units.
Near(a, b) == Abs(a - b) <= RDiv(Abs(b), 100) + 2

Clamp(v, lo, hi) == IF v < lo THEN lo ELSE IF v > hi THEN hi ELSE v

\* What the frame moved the player by.
Moved == Vec3Sub(translation, before.translation)

\* The pitch and the distance process_mouse_events left for update_player.
PitchIn == before.player.camera_pitch - Mul(look[2], time.delta_seconds)
DistanceIn == before.player.camera_distance - 10 * Mul(zoom_delta, time.delta_seconds)

\* C1: immediately after update_player the camera pitch lies in [1 degree,
\* 179 degrees] and the camera distance in [5, 30], whatever the frames before
\* it were.
C1_ClampInvariant ==
    AfterUpdate =>
        /\ ToRadians(1) <= player.camera_pitch
        /\ player.camera_pitch <= ToRadians(179)
        /\ 5 * One <= player.camera_distance
        /\ player.camera_distance <= 30 * One

\* A second frame whose input took the pitch below 1 degree and the distance
\* above 30.
C1_Witness ==
    /\ AfterUpdate
    /\ frame = 2
    /\ PitchIn < ToRadians(1)
    /\ DistanceIn > 30 * One
    /\ player.camera_pitch = ToRadians(1)
    /\ player.camera_distance = 30 * One

\* C2: the aggregated look delta is the delta of the last motion event queued
\* for the frame (not the sum), zero when none was queued; the aggregated zoom
\* delta is the y of the frame's last wheel event, zero when there is none.
C2_LastEventWins ==
    AfterProcess =>
        /\ look = IF FrameMotion = <<>> THEN Vec2Zero
                  ELSE FrameMotion[Len(FrameMotion)].delta
        /\ zoom_delta = IF FrameWheel = <<>> THEN 0
                        ELSE FrameWheel[Len(FrameWheel)].y

\* Two different motion events and two different wheel events in one frame.
C2_Witness ==
    /\ AfterProcess
    /\ Len(FrameMotion) >= 2
    /\ FrameMotion[1] # FrameMotion[2]
    /\ Len(FrameWheel) >= 2
    /\ FrameWheel[1] # FrameWheel[2]
    /\ look = FrameMotion[2].delta
    /\ zoom_delta = FrameWheel[2].y

\* Key sets: one key of each axis, and opposing keys.
Diagonals == {{W, A}, {W, D}, {S, A}, {S, D}}
Cancelling == {{W, S}, {A, D}, {W, A, S, D}}
\* An opposing pair with one key of the other axis, and that key.
PairAndKey ==
    { <<{W, S, A}, {A}>>, <<{W, S, D}, {D}>>, <<{A, D, W}, {W}>>, <<{A, D, S}, {S}>> }

\* The displacement the keys `keys` alone give in the current frame.
MoveOf(keys) == Displacement(before.transform, Movement(keys, time.delta_seconds))

\* C3: with one of W/S and one of A/D held, the player is displaced by as much
\* as with a single key held: dt * 10.
C3_DiagonalMagnitude ==
    AfterUpdate /\ keyboard_input \in Diagonals =>
        Near(Vec3Length(Moved), 10 * time.delta_seconds)

\* C4: opposing keys (W with S, A with D, or all four) leave the position
\* unchanged; an opposing pair held with one key of the other axis displaces
\* the player as that key alone does.
C4_OpposingKeysCancel ==
    AfterUpdate =>
        /\ keyboard_input \in Cancelling => translation = before.translation
        /\ \A pk \in PairAndKey :
               keyboard_input = pk[1] =>
                   Moved = MoveOf(pk[2])

\* W, S and A held by a player who has turned: moved as by A alone.
C4_Witness ==
    /\ AfterUpdate
    /\ frame = 2
    /\ keyboard_input = {W, S, A}
    /\ before.rotation # RotationIdentity
    /\ Moved # Vec3Zero
    /\ Moved = MoveOf({A})

\* The player's camera reference did not resolve in the current frame.
Unresolved ==
    \/ player.camera_entity = None
    \/ player.camera_entity \notin DOMAIN before.cameras.translation

\* C5: with the camera reference None, or set but not resolving, update_player
\* completes without an error and changes no camera's position or rotation,
\* while the player is clamped, moved and turned all the same; in a frame in
\* which the reference resolves the camera transform is written.
C5_CameraLookupAbsorbed ==
    AfterUpdate =>
        /\ ~panicked
        /\ player.camera_pitch = Clamp(PitchIn, ToRadians(1), ToRadians(179))
        /\ player.camera_distance = Clamp(DistanceIn, 5 * One, 30 * One)
        /\ Moved = MoveOf(keyboard_input)
        /\ rotation = FromRotationY(-player.yaw)
        /\ Unresolved => cameras = before.cameras
        /\ ~Unresolved =>
              /\ DOMAIN cameras.translation = DOMAIN before.cameras.translation
              /\ cameras.translation[player.camera_entity] = CamPos(player)
              /\ cameras.rotation[player.camera_entity] =
                    FaceToward(CamPos(player), Vec3Zero, Vec3Up)

\* A frame in which the camera entity is gone while the player's reference is
\* set, and the player was clamped, moved and turned.
C5_Witness ==
    /\ AfterUpdate
    /\ player.camera_entity = CameraEntity
    /\ Unresolved
    /\ PitchIn > ToRadians(179)
    /\ player.camera_pitch = ToRadians(179)
    /\ Moved # Vec3Zero
    /\ rotation # before.rotation
    /\ cameras = before.cameras

\* What one step may do to the readers: they do not move backward; a call of
\* process_mouse_events starts where the frames before it stopped, ends past
\* every event queued so far, and yields zero deltas if the frame queued none.
C6_ReaderStep ==
    /\ state'.mouse_motion_event_reader >= state.mouse_motion_event_reader
    /\ state'.mouse_wheel_event_reader >= state.mouse_wheel_event_reader
    /\ pc = "process_mouse_events" /\ pc' = "update_player" =>
          /\ state'.mouse_motion_event_reader = Len(mouse_motion_events)
          /\ state'.mouse_wheel_event_reader = Len(mouse_wheel_events)
          /\ state.mouse_motion_event_reader = before.motion_count
          /\ state.mouse_wheel_event_reader = before.wheel_count
          /\ FrameMotion = <<>> => look' = Vec2Zero
          /\ FrameWheel = <<>> => zoom_delta' = 0

\* C6: the two read cursors never move backward, every call of
\* process_mouse_events leaves them past every event queued so far, so that an
\* event is read in exactly one call, and a frame with no new events yields
\* zero deltas whatever earlier frames read.
C6_CursorsOnlyAdvance == [][C6_ReaderStep]_vars

\* A second frame without events after a first frame that read two motion
\* events and a wheel event.
C6_Witness ==
    /\ AfterProcess
    /\ frame = 2
    /\ before.state.mouse_motion_event_reader = 2
    /\ before.state.mouse_wheel_event_reader >= 1
    /\ FrameMotion = <<>>
    /\ FrameWheel = <<>>
    /\ state = before.state
    /\ look = Vec2Zero
    /\ zoom_delta = 0

\* C7: after an update in which the camera reference resolves, the camera's
\* local position is as long as the camera distance.
C7_OrbitRadius ==
    AfterUpdate /\ ~Unresolved =>
        Near(Vec3Length(cameras.translation[player.camera_entity]), player.camera_distance)

\* The camera at the upper pitch bound and the lower distance bound.
C7_Witness ==
    /\ AfterUpdate
    /\ ~Unresolved
    /\ player.camera_pitch = ToRadians(179)
    /\ player.camera_distance = 5 * One
    /\ cameras.translation[CameraEntity] # Vec3Zero

\* No motion event, no wheel event and no key in the current frame.
Idle == FrameMotion = <<>> /\ FrameWheel = <<>> /\ keyboard_input = {}

\* C8: an idle frame leaves heading, pitch, distance, camera reference and
\* position as they were, and puts the camera where that pitch and distance
\* place it.
C8_IdleFrame ==
    AfterUpdate /\ Idle =>
        /\ player = before.player
        /\ translation = before.translation
        /\ cameras.translation[CameraEntity] = CamPos(before.player)

\* An idle second frame of a player whom the first frame turned and moved.
C8_Witness ==
    /\ AfterUpdate
    /\ frame = 2
    /\ Idle
    /\ before.player.yaw # 0
    /\ before.translation # Vec3Zero
    /\ before.player.camera_distance # 20 * One
    /\ player = before.player

\* C9: a frame takes heading h, pitch p and distance d to h + lx * dt,
\* clamp(p - ly * dt, 1 degree, 179 degrees) and clamp(d - z * dt * 10, 5, 30),
\* and stores the clamped values.
C9_FrameMap ==
    AfterUpdate =>
        /\ player.yaw = before.player.yaw + Mul(look[1], time.delta_seconds)
        /\ player.camera_pitch = Clamp(PitchIn, ToRadians(1), ToRadians(179))
        /\ player.camera_distance = Clamp(DistanceIn, 5 * One, 30 * One)

\* The frame after one that zoomed in past the lower bound: from the stored 5,
\* z = -1 and dt = 1 give 15.
C9_Witness ==
    /\ AfterUpdate
    /\ frame = 2
    /\ before.player.camera_distance = 5 * One
    /\ before.wheel_count = 1
    /\ Len(mouse_wheel_events) = 2
    /\ mouse_wheel_events[1].y = 5 * One
    /\ zoom_delta = -One
    /\ time.delta_seconds = One
    /\ player.camera_distance = 15 * One

\* The movement of the current frame along the axes of the rotation `rot`.
MoveAlong(rot) ==
    LET m == Movement(keyboard_input, time.delta_seconds)
    IN  Vec3Add(Vec3Scale(rot[3], m[2]), Vec3Scale(Vec3Neg(rot[1]), m[1]))

\* C10: update_player moves the player along the forward and right axes of
\* the orientation it had before the call and then sets the orientation to the
\* yaw rotation of -heading; a heading changed in this frame turns the player
\* in this frame and steers the movement from the next frame on.
C10_MovesAlongPreviousFacing ==
    /\ AfterUpdate =>
          /\ Moved = MoveAlong(before.rotation)
          /\ rotation = FromRotationY(-player.yaw)
    /\ AfterProcess =>
          /\ rotation = before.rotation
          /\ rotation = FromRotationY(-before.player.yaw)

\* A second frame in which the pointer turns a walking player: the step is
\* taken along the first frame's facing, not along the new one.
C10_Witness ==
    /\ AfterUpdate
    /\ frame = 2
    /\ keyboard_input = {W}
    /\ look[1] # 0
    /\ before.rotation # RotationIdentity
    /\ rotation # before.rotation
    /\ Moved = MoveAlong(before.rotation)
    /\ Moved # MoveAlong(rotation)

====
